---- MODULE Spec2Model ----
(***************************************************************************)
(* A model of the Bol.com scraper: the field extractors of scraper/bol.py  *)
(* applied to a rendered document, the browser session of                  *)
(* scrape_bol_product, and the Flask workflow of app.py (scrape, edit,     *)
(* confirm) over the signed-cookie session and the spreadsheet.            *)
(*                                                                         *)
(* Python strings are sequences of one-character strings.  A document is   *)
(* the sequence of its elements in document order; an element is a record  *)
(* whose optional fields are the attributes it carries.                    *)
(***************************************************************************)
EXTENDS Integers, Sequences, FiniteSets, TLC

VARIABLES
    pc,          \* position of the /scrape request inside scrape() / scrape_bol_product()
    url,         \* request.form['url'] of the request being handled
    playwright,  \* the sync_playwright() context: "off", "on", "stopped"
    browser,     \* the Browser: "none", "launched", "closed"
    page,        \* the Page: "none", "created", "loaded"
    doc,         \* the BeautifulSoup document, NoDoc before page.content()
    result,      \* what scrape_bol_product returned or raised, NoResult before
    web,         \* the document the site serves: what the renderer will return
    session,     \* the Flask session: a record that may hold current_row
    excel,       \* the rows of OUTPUT_EXCEL
    request,     \* the HTTP request being handled, or handled last
    response,    \* the last HTTP response sent to the client
    arg,         \* argument of a direct call of to_float_price
    ret,         \* its return value, NotCalled before the call
    loaded       \* history: where the spreadsheet row that edit_row read for the
                 \* pending record is now, NotLoaded for a record not read from a row

vars == <<pc, url, playwright, browser, page, doc, result, web, session, excel,
          request, response, arg, ret, loaded>>

----------------------------------------------------------------------------
(* Bounds of the model *)

\* longest raw price string handed directly to to_float_price
MaxLen == 5
\* most distinct qualifying image URLs a generated gallery holds
MaxImgs == 25
\* most rows the spreadsheet holds
MaxRows == 2

----------------------------------------------------------------------------
(* Python values *)

None == [type |-> "None"]
Float(m, e) == [type |-> "float", mant |-> m, exp |-> e]
Str(s) == [type |-> "str", val |-> s]
Exception(name) == [type |-> "exception", exc |-> name]
IsException(v) == "exc" \in DOMAIN v

Digits == {"0", "1", "2", "3", "4", "5", "6", "7", "8", "9"}
Whitespace == {" ", "\n", "\t"}

DigitVal(c) ==
    CASE c = "0" -> 0 [] c = "1" -> 1 [] c = "2" -> 2 [] c = "3" -> 3
      [] c = "4" -> 4 [] c = "5" -> 5 [] c = "6" -> 6 [] c = "7" -> 7
      [] c = "8" -> 8 [] c = "9" -> 9

\* str.lower() on the letters the model's strings use
Lower(c) ==
    CASE c = "E" -> "e" [] c = "A" -> "a" [] c = "N" -> "n"
      [] c = "J" -> "j" [] c = "P" -> "p" [] c = "G" -> "g"
      [] OTHER -> c

LowerStr(s) == [i \in 1..Len(s) |-> Lower(s[i])]

\* `sub in s`
Contains(s, sub) ==
    \E i \in 0..(Len(s) - Len(sub)) :
        \A j \in 1..Len(sub) : s[i + j] = sub[j]

StartsWith(s, pre) ==
    /\ Len(pre) <= Len(s)
    /\ \A j \in 1..Len(pre) : s[j] = pre[j]

EndsWith(s, suf) ==
    /\ Len(suf) <= Len(s)
    /\ \A j \in 1..Len(suf) : s[Len(s) - Len(suf) + j] = suf[j]

\* the characters of s that are in `keep`, in order: re.sub('[^keep]', '', s)
Keep(s, keep) == SelectSeq(s, LAMBDA c : c \in keep)

\* str.replace(a, b) for single characters
ReplaceChar(s, a, b) == [i \in 1..Len(s) |-> IF s[i] = a THEN b ELSE s[i]]

RECURSIVE LStrip(_)
LStrip(s) ==
    IF s # <<>> /\ Head(s) \in Whitespace THEN LStrip(Tail(s)) ELSE s

RECURSIVE RStrip(_)
RStrip(s) ==
    IF s # <<>> /\ s[Len(s)] \in Whitespace
    THEN RStrip(SubSeq(s, 1, Len(s) - 1)) ELSE s

\* str.strip()
Strip(s) == RStrip(LStrip(s))

RECURSIVE Concat(_)
Concat(ss) == IF ss = <<>> THEN <<>> ELSE Head(ss) \o Concat(Tail(ss))

\* sep.join(ss)
RECURSIVE Join(_, _)
Join(ss, sep) ==
    IF ss = <<>> THEN <<>>
    ELSE IF Len(ss) = 1 THEN ss[1]
    ELSE ss[1] \o sep \o Join(Tail(ss), sep)

\* int(s) for a string of decimal digits ("" counts 0)
RECURSIVE ToNat(_)
ToNat(s) ==
    IF s = <<>> THEN 0
    ELSE 10 * ToNat(SubSeq(s, 1, Len(s) - 1)) + DigitVal(s[Len(s)])

RECURSIVE DropTrailingZeros(_)
DropTrailingZeros(s) ==
    IF s # <<>> /\ s[Len(s)] = "0"
    THEN DropTrailingZeros(SubSeq(s, 1, Len(s) - 1)) ELSE s

\* the number with integer digits ip and fraction digits fp
Decimal(ip, fp) ==
    LET f == DropTrailingZeros(fp) IN Float(ToNat(ip \o f), Len(f))

\* the value float has for every magnitude beyond its range
Inf == [type |-> "float", val |-> "inf"]

\* 2^1024 - 2^970, the least integer float() rounds to inf: halfway between
\* the largest finite double and 2^1024
RoundsToInf ==
    << "1", "7", "9", "7", "6", "9", "3", "1", "3", "4", "8", "6", "2", "3", "1",
       "5", "8", "0", "7", "9", "3", "7", "2", "8", "9", "7", "1", "4", "0", "5",
       "3", "0", "3", "4", "1", "5", "0", "7", "9", "9", "3", "4", "1", "3", "2",
       "7", "1", "0", "0", "3", "7", "8", "2", "6", "9", "3", "6", "1", "7", "3",
       "7", "7", "8", "9", "8", "0", "4", "4", "4", "9", "6", "8", "2", "9", "2",
       "7", "6", "4", "7", "5", "0", "9", "4", "6", "6", "4", "9", "0", "1", "7",
       "9", "7", "7", "5", "8", "7", "2", "0", "7", "0", "9", "6", "3", "3", "0",
       "2", "8", "6", "4", "1", "6", "6", "9", "2", "8", "8", "7", "9", "1", "0",
       "9", "4", "6", "5", "5", "5", "5", "4", "7", "8", "5", "1", "9", "4", "0",
       "4", "0", "2", "6", "3", "0", "6", "5", "7", "4", "8", "8", "6", "7", "1",
       "5", "0", "5", "8", "2", "0", "6", "8", "1", "9", "0", "8", "9", "0", "2",
       "0", "0", "0", "7", "0", "8", "3", "8", "3", "6", "7", "6", "2", "7", "3",
       "8", "5", "4", "8", "4", "5", "8", "1", "7", "7", "1", "1", "5", "3", "1",
       "7", "6", "4", "4", "7", "5", "7", "3", "0", "2", "7", "0", "0", "6", "9",
       "8", "5", "5", "5", "7", "1", "3", "6", "6", "9", "5", "9", "6", "2", "2",
       "8", "4", "2", "9", "1", "4", "8", "1", "9", "8", "6", "0", "8", "3", "4",
       "9", "3", "6", "4", "7", "5", "2", "9", "2", "7", "1", "9", "0", "7", "4",
       "1", "6", "8", "4", "4", "4", "3", "6", "5", "5", "1", "0", "7", "0", "4",
       "3", "4", "2", "7", "1", "1", "5", "5", "9", "6", "9", "9", "5", "0", "8",
       "0", "9", "3", "0", "4", "2", "8", "8", "0", "1", "7", "7", "9", "0", "4",
       "1", "7", "4", "4", "9", "7", "7", "9", "2" >>

RECURSIVE StripLeadingZeros(_)
StripLeadingZeros(s) ==
    IF s # <<>> /\ s[1] = "0" THEN StripLeadingZeros(Tail(s)) ELSE s

\* a < b for digit strings of one length
DigitsLess(a, b) ==
    \E i \in 1..Len(a) :
        /\ DigitVal(a[i]) < DigitVal(b[i])
        /\ \A j \in 1..(i - 1) : a[j] = b[j]

\* the integer digits ip write a number of at least RoundsToInf (a fraction
\* part never carries a smaller integer part over it)
Overflows(ip) ==
    LET n == StripLeadingZeros(ip) IN
    \/ Len(n) > Len(RoundsToInf)
    \/ Len(n) = Len(RoundsToInf) /\ ~DigitsLess(n, RoundsToInf)

\* float(s), for s made of digits and periods only (all to_float_price passes):
\* digits with at most one period and at least one digit, else ValueError; inf
\* beyond the range of a double; the value itself is kept exactly, which holds
\* for the short numerals the model parses
ParseFloat(s) ==
    LET dots == {i \in 1..Len(s) : s[i] = "."} IN
    IF Cardinality(dots) > 1 \/ Len(s) = Cardinality(dots)
    THEN Exception("ValueError")
    ELSE LET d  == IF dots = {} THEN Len(s) + 1 ELSE CHOOSE i \in dots : TRUE
             ip == SubSeq(s, 1, d - 1)
             fp == SubSeq(s, d + 1, Len(s)) IN
         IF Overflows(ip) THEN Inf ELSE Decimal(ip, fp)

----------------------------------------------------------------------------
(* scraper/bol.py: to_float_price *)

\* the try/except around float() left out
to_float_price_unguarded(s) ==
    IF s = <<>> THEN None
    ELSE LET cleaned == Keep(s, Digits \cup {",", "."}) IN
         IF cleaned = <<>> THEN None
         ELSE ParseFloat(ReplaceChar(cleaned, ",", "."))

to_float_price(s) ==
    IF s = <<>> THEN None
    ELSE LET cleaned == Keep(s, Digits \cup {",", "."}) IN
         IF cleaned = <<>> THEN None
         ELSE LET v == ParseFloat(ReplaceChar(cleaned, ",", ".")) IN
              IF IsException(v) THEN None ELSE v

----------------------------------------------------------------------------
(* BeautifulSoup: elements, selectors, text *)

NoDoc == <<[tag |-> "#none"]>>

Has(e, k) == k \in DOMAIN e

\* element.get(k, '')
Get(e, k) == IF Has(e, k) THEN e[k] ELSE <<>>

Classes(e) == IF Has(e, "cls") THEN e.cls ELSE {}
Ancestors(e) == IF Has(e, "anc") THEN e.anc ELSE {}
TextNodes(e) == IF Has(e, "texts") THEN e.texts ELSE <<>>

\* element.get_text(strip=True): every text node stripped, the empty ones dropped,
\* the rest concatenated
GetTextStrip(e) == Concat([i \in 1..Len(TextNodes(e)) |-> Strip(TextNodes(e)[i])])

\* A CSS selector: a record of the conditions it puts on the element (tag, cls,
\* dataTest, property, id) and on one of its ancestors (anc)
Matches(e, sel) ==
    /\ Has(sel, "tag") => e.tag = sel.tag
    /\ Has(sel, "cls") => sel.cls \in Classes(e)
    /\ Has(sel, "dataTest") => (Has(e, "dataTest") /\ e.dataTest = sel.dataTest)
    /\ Has(sel, "property") => (Has(e, "property") /\ e.property = sel.property)
    /\ Has(sel, "id") => (Has(e, "id") /\ e.id = sel.id)
    /\ Has(sel, "anc") => sel.anc \in Ancestors(e)

\* soup.select(selector): the positions of the matching elements, ascending
Select(d, sel) == {i \in 1..Len(d) : Matches(d[i], sel)}

Min(S) == CHOOSE x \in S : \A y \in S : x <= y

\* soup.select_one(selector): position of the first match in document order, 0 for None
SelectOne(d, sel) == IF Select(d, sel) = {} THEN 0 ELSE Min(Select(d, sel))

\* element.find_next_sibling(tag): the first later element with the same parent
FindNextSibling(d, i, tag) ==
    LET sibs == {j \in (i + 1)..Len(d) :
                    /\ d[j].tag = tag
                    /\ Has(d[j], "parent") /\ Has(d[i], "parent")
                    /\ d[j].parent = d[i].parent} IN
    IF sibs = {} THEN 0 ELSE Min(sibs)

\* element.string: the single text node of the element, None (here absent) otherwise
HasString(e) == Len(TextNodes(e)) = 1

\* soup.find(tag, class_=cls, string=re.compile(pat, re.I)): first element of that
\* tag (and class, when cls # "") whose .string contains pat, ignoring case
FindByString(d, tag, cls, pat) ==
    LET hits == {i \in 1..Len(d) :
                    /\ d[i].tag = tag
                    /\ cls # "" => cls \in Classes(d[i])
                    /\ HasString(d[i])
                    /\ Contains(LowerStr(TextNodes(d[i])[1]), LowerStr(pat))} IN
    IF hits = {} THEN 0 ELSE Min(hits)

----------------------------------------------------------------------------
(* scraper/bol.py: the selectors *)

TitleSelectors ==
    << [tag |-> "span", dataTest |-> "title"],
       [tag |-> "h1", dataTest |-> "product-title"],
       [tag |-> "h1"],
       [tag |-> "meta", property |-> "og:title"] >>

OgTitleSelector == [tag |-> "meta", property |-> "og:title"]

IntegerSelector == [tag |-> "span", cls |-> "promo-price", dataTest |-> "price"]
FractionSelector ==
    [tag |-> "sup", cls |-> "promo-price__fraction", dataTest |-> "price-fraction"]

PriceFallbackSelectors ==
    << [anc |-> "div[data-test=priceBlockPrice]", dataTest |-> "price"],
       [tag |-> "meta", property |-> "product:price:amount"],
       [dataTest |-> "price"] >>

ListPriceSelectors ==
    << [tag |-> "del", cls |-> "buy-block__list-price", dataTest |-> "list-price"],
       [tag |-> "span", dataTest |-> "list-price"],
       [tag |-> "del", anc |-> "div[data-test=buy-block]"] >>

BrandLinkSelector == [tag |-> "a", anc |-> "div[data-test=brand]"]
BrandDivSelector == [tag |-> "div", dataTest |-> "brand"]

DescriptionSelectors ==
    << [tag |-> "div", dataTest |-> "description", cls |-> "product-description"],
       [dataTest |-> "description"],
       [tag |-> "section", id |-> "productDescription"] >>

FilmstripSelector == [tag |-> "img", anc |-> ".filmstrip-viewport"]
ImgSelector == [tag |-> "img"]

EanPattern == <<"E", "A", "N">>
BolCom == <<"b", "o", "l", ".", "c", "o", "m">>
Media == <<"m", "e", "d", "i", "a">>
MerkPrefix == <<"M", "e", "r", "k", ":">>

\* the [:20] of extract_gallery_images
GalleryLimit == 20

----------------------------------------------------------------------------
(* scraper/bol.py: the extractors *)

\* text(selectors, soup): the loop from rule k on
RECURSIVE textFrom(_, _, _)
textFrom(selectors, d, k) ==
    IF k > Len(selectors) THEN <<>>
    ELSE LET i == SelectOne(d, selectors[k]) IN
         IF i # 0 THEN GetTextStrip(d[i])
         ELSE textFrom(selectors, d, k + 1)

text(selectors, d) == textFrom(selectors, d, 1)

\* the title of scrape_bol_product: text() over the chain, then the og:title content
Title(d) ==
    LET t == text(TitleSelectors, d) IN
    IF t # <<>> THEN t
    ELSE LET m == SelectOne(d, OgTitleSelector) IN
         IF m # 0 THEN Get(d[m], "content") ELSE <<>>

\* what one fallback rule of extract_price_parts reads from its element
PriceRuleText(e) ==
    IF e.tag = "meta" THEN Get(e, "content") ELSE GetTextStrip(e)

RECURSIVE priceFallbackFrom(_, _)
priceFallbackFrom(d, k) ==
    IF k > Len(PriceFallbackSelectors) THEN <<<<>>, None>>
    ELSE LET i == SelectOne(d, PriceFallbackSelectors[k]) IN
         IF i # 0 /\ PriceRuleText(d[i]) # <<>>
         THEN <<PriceRuleText(d[i]), to_float_price(PriceRuleText(d[i]))>>
         ELSE priceFallbackFrom(d, k + 1)

\* the fallback chain started at the generic rule, skipping the two before it
extract_price_parts_generic_only(d) ==
    LET ie == SelectOne(d, IntegerSelector)
        fe == SelectOne(d, FractionSelector) IN
    IF ie # 0 /\ fe # 0
    THEN LET price_text == GetTextStrip(d[ie]) \o <<",">> \o GetTextStrip(d[fe]) IN
         <<price_text, to_float_price(price_text)>>
    ELSE priceFallbackFrom(d, 3)

\* extract_price_parts(soup): <<price_text, price_value>>
extract_price_parts(d) ==
    LET ie == SelectOne(d, IntegerSelector)
        fe == SelectOne(d, FractionSelector) IN
    IF ie # 0 /\ fe # 0
    THEN LET price_text == GetTextStrip(d[ie]) \o <<",">> \o GetTextStrip(d[fe]) IN
         <<price_text, to_float_price(price_text)>>
    ELSE priceFallbackFrom(d, 1)

RECURSIVE listPriceFrom(_, _)
listPriceFrom(d, k) ==
    IF k > Len(ListPriceSelectors) THEN <<<<>>, None>>
    ELSE LET i == SelectOne(d, ListPriceSelectors[k]) IN
         IF i # 0 /\ GetTextStrip(d[i]) # <<>>
         THEN <<GetTextStrip(d[i]), to_float_price(GetTextStrip(d[i]))>>
         ELSE listPriceFrom(d, k + 1)

\* extract_list_price(soup): <<list_price_text, list_price_value>>
extract_list_price(d) == listPriceFrom(d, 1)

\* extract_brand(soup)
extract_brand(d) ==
    LET a == SelectOne(d, BrandLinkSelector)
        v == SelectOne(d, BrandDivSelector) IN
    IF a # 0 THEN GetTextStrip(d[a])
    ELSE IF v # 0
    THEN LET brand_text == GetTextStrip(d[v]) IN
         IF StartsWith(brand_text, MerkPrefix)
         THEN Strip(SubSeq(brand_text, 6, Len(brand_text)))
         ELSE brand_text
    ELSE <<>>

\* the digits kept, but of the raw text: re.sub(r'\D', ...) left out
extract_ean_raw(d) ==
    LET dt == FindByString(d, "dt", "specs__title", EanPattern)
        dd == IF dt = 0 THEN 0 ELSE FindNextSibling(d, dt, "dd")
        th == FindByString(d, "th", "", EanPattern)
        td == IF th = 0 THEN 0 ELSE FindNextSibling(d, th, "td") IN
    IF dd # 0 THEN GetTextStrip(d[dd])
    ELSE IF td # 0 THEN GetTextStrip(d[td])
    ELSE <<>>

\* extract_ean(soup)
extract_ean(d) ==
    LET dt == FindByString(d, "dt", "specs__title", EanPattern)
        dd == IF dt = 0 THEN 0 ELSE FindNextSibling(d, dt, "dd")
        th == FindByString(d, "th", "", EanPattern)
        td == IF th = 0 THEN 0 ELSE FindNextSibling(d, th, "td") IN
    IF dd # 0 THEN Keep(GetTextStrip(d[dd]), Digits)
    ELSE IF td # 0 THEN Keep(GetTextStrip(d[td]), Digits)
    ELSE <<>>

\* extract_description(soup): the loop from rule k on
RECURSIVE descriptionFrom(_, _)
descriptionFrom(d, k) ==
    IF k > Len(DescriptionSelectors) THEN <<>>
    ELSE LET i == SelectOne(d, DescriptionSelectors[k]) IN
         IF i # 0 THEN GetTextStrip(d[i])
         ELSE descriptionFrom(d, k + 1)

extract_description(d) == descriptionFrom(d, 1)

\* img.get('src') or img.get('data-src')
ImgSrc(e) == IF Get(e, "src") # <<>> THEN Get(e, "src") ELSE Get(e, "dataSrc")

Qualifies(src) == src # <<>> /\ Contains(src, BolCom) /\ Contains(src, Media)

\* the qualifying sources of the elements matching sel, in document order
RECURSIVE collectFrom(_, _, _)
collectFrom(d, sel, i) ==
    IF i > Len(d) THEN <<>>
    ELSE (IF Matches(d[i], sel) /\ Qualifies(ImgSrc(d[i]))
          THEN <<ImgSrc(d[i])>> ELSE <<>>) \o collectFrom(d, sel, i + 1)

Collect(d, sel) == collectFrom(d, sel, 1)

\* list(dict.fromkeys(images)): each value once, at its first position
RECURSIVE dedupeFrom(_, _)
dedupeFrom(images, i) ==
    IF i > Len(images) THEN <<>>
    ELSE (IF \E j \in 1..(i - 1) : images[j] = images[i]
          THEN <<>> ELSE <<images[i]>>) \o dedupeFrom(images, i + 1)

Dedupe(images) == dedupeFrom(images, 1)

\* seq[:n]
Take(seq, n) == SubSeq(seq, 1, IF Len(seq) < n THEN Len(seq) ELSE n)

\* truncation before deduplication
extract_gallery_images_cut_first(d) ==
    LET film == Collect(d, FilmstripSelector)
        images == IF film # <<>> THEN film ELSE Collect(d, ImgSelector) IN
    Dedupe(Take(images, GalleryLimit))

\* extract_gallery_images(soup)
extract_gallery_images(d) ==
    LET film == Collect(d, FilmstripSelector)
        images == IF film # <<>> THEN film ELSE Collect(d, ImgSelector) IN
    Take(Dedupe(images), GalleryLimit)


----------------------------------------------------------------------------
(* urllib.parse.urlparse: the host of a URL *)

SchemeChars ==
    {"a", "b", "c", "d", "e", "f", "g", "h", "i", "j", "k", "l", "m", "n", "o",
     "p", "q", "r", "s", "t", "u", "v", "w", "x", "y", "z", "+", "-", "."} \cup Digits
Letters == SchemeChars \ (Digits \cup {"+", "-", "."})

\* position of the first character of s that is in cs, Len(s) + 1 if none
FirstOf(s, cs) ==
    IF \E i \in 1..Len(s) : s[i] \in cs
    THEN Min({i \in 1..Len(s) : s[i] \in cs}) ELSE Len(s) + 1

\* what urlsplit leaves after taking off the scheme
AfterScheme(u) ==
    LET c == FirstOf(u, {":"}) IN
    IF /\ c <= Len(u) /\ c > 1
       /\ u[1] \in Letters
       /\ \A i \in 1..(c - 1) : u[i] \in SchemeChars
    THEN SubSeq(u, c + 1, Len(u)) ELSE u

\* urlparse(u).netloc
Netloc(u) ==
    LET rest == AfterScheme(u) IN
    IF StartsWith(rest, <<"/", "/">>)
    THEN LET r2 == SubSeq(rest, 3, Len(rest)) IN
         SubSeq(r2, 1, FirstOf(r2, {"/", "?", "#"}) - 1)
    ELSE <<>>

\* the token looked for anywhere in the URL instead of in its host
HostOk_anywhere(u) == u # <<>> /\ Contains(u, BolCom)

\* parsed.netloc and 'bol.com' in parsed.netloc
HostOk(u) == Netloc(u) # <<>> /\ Contains(Netloc(u), BolCom)

Https == <<"h", "t", "t", "p", "s", ":", "/", "/">>
WwwBol == <<"w", "w", "w", ".">> \o BolCom
Example == <<"e", "x", "a", "m", "p", "l", "e", ".", "c", "o", "m">>

UrlBol == Https \o WwwBol \o <<"/", "p", "/", "1">>
UrlBolPadded == <<" ">> \o UrlBol \o <<" ">>
UrlExample == Https \o Example \o <<"/", "p", "r", "o", "d", "u", "c", "t">>
UrlNoScheme == BolCom \o <<"/", "p", "/", "1">>
UrlTokenInPath == Https \o Example \o <<"/">> \o BolCom
UrlLookalike == Https \o BolCom \o <<".", "e", "v", "i", "l", ".", "o", "r", "g", "/">>

----------------------------------------------------------------------------
(* The documents the renderer returns *)

\* zero or one element
Opt(S) == {<<>>} \cup {<<e>> : e \in S}

T(s) == <<s>>

SpanTitleOpts ==
    Opt({ [tag |-> "span", dataTest |-> "title"],
          [tag |-> "span", dataTest |-> "title", texts |-> T(<<" ">>)],
          [tag |-> "span", dataTest |-> "title", texts |-> T(<<" ", "T", "v", "\n">>)] })

H1ProductOpts ==
    Opt({ [tag |-> "h1", dataTest |-> "product-title"],
          [tag |-> "h1", dataTest |-> "product-title", texts |-> T(<<"P", "t">>)] })

H1Opts ==
    Opt({ [tag |-> "h1"],
          [tag |-> "h1", texts |-> <<<<"H", "d", " ">>, <<" ">>, <<"x">>>>] })

OgTitleOpts ==
    Opt({ [tag |-> "meta", property |-> "og:title"],
          [tag |-> "meta", property |-> "og:title", content |-> <<>>],
          [tag |-> "meta", property |-> "og:title", content |-> <<"O", "g">>] })

TitleDocs ==
    {m \o a \o b \o c : m \in OgTitleOpts, a \in SpanTitleOpts,
                        b \in H1ProductOpts, c \in H1Opts}
    \cup {m \o c \o b : m \in OgTitleOpts, b \in H1ProductOpts, c \in H1Opts}

IntegerOpts ==
    Opt({ [tag |-> "span", cls |-> {"promo-price"}, dataTest |-> "price",
           texts |-> T(<<"4", "9">>)],
          [tag |-> "span", cls |-> {"promo-price"}, dataTest |-> "price"] })

FractionOpts ==
    Opt({ [tag |-> "sup", cls |-> {"promo-price__fraction"},
           dataTest |-> "price-fraction", texts |-> T(<<"9", "9">>)] })

PriceBlockOpts ==
    Opt({ [tag |-> "span", dataTest |-> "price", anc |-> {"div[data-test=priceBlockPrice]"},
           texts |-> T(<<" ">>)],
          [tag |-> "span", dataTest |-> "price", anc |-> {"div[data-test=priceBlockPrice]"},
           texts |-> T(<<"1", "2", ",", "5", "0">>)] })

PriceMetaOpts ==
    Opt({ [tag |-> "meta", property |-> "product:price:amount"],
          [tag |-> "meta", property |-> "product:price:amount",
           content |-> <<"1", "9", ".", "9", "5">>] })

GenericPriceOpts ==
    Opt({ [tag |-> "div", dataTest |-> "price"],
          [tag |-> "meta", dataTest |-> "price", content |-> <<"7">>],
          [tag |-> "div", dataTest |-> "price", texts |-> T(<<"E", "U", "R", " ", "5", ",", "-">>)] })

ListPriceOpts ==
    { <<>>,
      <<[tag |-> "del", cls |-> {"buy-block__list-price"}, dataTest |-> "list-price",
         texts |-> T(<<"5", "9", ",", "9", "9">>)]>>,
      <<[tag |-> "span", dataTest |-> "list-price"],
        [tag |-> "del", anc |-> {"div[data-test=buy-block]"},
         texts |-> T(<<"1", ".", "2", "9", "9", ",", "0", "0">>)]>> }

\* n times the digit 9
Nines(n) == [i \in 1..n |-> "9"]

\* price nodes whose text is a run of digits as long as RoundsToInf, or longer,
\* with the marks a price text carries
LongPriceTexts ==
    { Nines(Len(RoundsToInf)), <<"-">> \o Nines(Len(RoundsToInf) + 1) \o <<",", "-">>,
      <<"E", "U", "R", " ">> \o RoundsToInf, <<"-", "4", ",", "5", "0">> }

LongPriceDocs ==
    { <<[tag |-> "div", dataTest |-> "price", texts |-> T(s)]>>
          \o (IF l THEN <<[tag |-> "span", dataTest |-> "list-price", texts |-> T(s)]>>
               ELSE <<>>) :
        s \in LongPriceTexts, l \in BOOLEAN }

PriceDocs ==
    {m \o i \o f \o b \o g \o l :
        m \in PriceMetaOpts, i \in IntegerOpts, f \in FractionOpts,
        b \in PriceBlockOpts, g \in GenericPriceOpts, l \in ListPriceOpts}

EanText == <<"E", "A", "N", ":", " ", "8", " ", "7", "1", "1", " ", "5", " ", "9", "9">>

DtOpts ==
    Opt({ [tag |-> "dt", cls |-> {"specs__title"}, parent |-> 1, texts |-> T(<<"E", "A", "N">>)],
          [tag |-> "dt", cls |-> {"specs__title"}, parent |-> 1,
           texts |-> T(<<"e", "a", "n", "-", "c", "o", "d", "e">>)],
          [tag |-> "dt", cls |-> {"specs__title"}, parent |-> 1, texts |-> T(<<"K", "l", "e", "u", "r">>)],
          [tag |-> "dt", parent |-> 1, texts |-> T(<<"E", "A", "N">>)] })

DdOpts ==
    Opt({ [tag |-> "dd", parent |-> 1],
          [tag |-> "dd", parent |-> 1, texts |-> T(<<"n", ".", "v", ".", "t", ".">>)],
          [tag |-> "dd", parent |-> 1, texts |-> T(<<" ">> \o EanText \o <<"\n">>)] })

ThOpts ==
    Opt({ [tag |-> "th", parent |-> 2, texts |-> T(<<"E", "A", "N">>)],
          [tag |-> "th", parent |-> 2, texts |-> T(<<"M", "e", "r", "k">>)] })

TdOpts ==
    Opt({ [tag |-> "td", parent |-> 2],
          [tag |-> "td", parent |-> 2, texts |-> T(<<"4", "0", "0", "6", "3", "8", "1">>)],
          [tag |-> "td", parent |-> 3, texts |-> T(<<"1", "2", "3">>)] })

EanDocs == {a \o b \o c \o e : a \in DtOpts, b \in DdOpts, c \in ThOpts, e \in TdOpts}


DigitChar(n) ==
    CASE n = 0 -> "0" [] n = 1 -> "1" [] n = 2 -> "2" [] n = 3 -> "3" [] n = 4 -> "4"
      [] n = 5 -> "5" [] n = 6 -> "6" [] n = 7 -> "7" [] n = 8 -> "8" [] n = 9 -> "9"

\* str(n) for 0 <= n < 100
NumStr(n) == IF n < 10 THEN <<DigitChar(n)>> ELSE <<DigitChar(n \div 10), DigitChar(n % 10)>>

Jpg == <<".", "j", "p", "g">>
ImgUrl(i) == Https \o Media \o <<".">> \o BolCom \o <<"/">> \o NumStr(i) \o Jpg

FilmImg(i) ==
    IF i % 3 = 0
    THEN [tag |-> "img", anc |-> {".filmstrip-viewport"}, src |-> <<>>, dataSrc |-> ImgUrl(i)]
    ELSE [tag |-> "img", anc |-> {".filmstrip-viewport"}, src |-> ImgUrl(i)]
PageImg(i) ==
    IF i % 3 = 0 THEN [tag |-> "img", dataSrc |-> ImgUrl(i)]
    ELSE [tag |-> "img", src |-> ImgUrl(i), dataSrc |-> Https \o Example]

\* images the host/media filter rejects
NoiseImgs ==
    << [tag |-> "img", src |-> Https \o Example \o <<"/", "m", "e", "d", "i", "a">> \o Jpg],
       [tag |-> "img", anc |-> {".filmstrip-viewport"}, src |-> Https \o WwwBol \o <<"/", "l", "o", "g", "o">>],
       [tag |-> "img"] >>

\* the order in which a gallery of n distinct images shows them
ImgOrder(n, pattern) ==
    CASE pattern = "once" -> [k \in 1..n |-> k]
      [] pattern = "twice" -> [k \in 1..(2 * n) |-> (k + 1) \div 2]
      [] pattern = "again" -> [k \in 1..(2 * n) |-> ((k - 1) % n) + 1]
      [] pattern = "first" -> [k \in 1..(n + 2) |-> IF k <= 2 \/ k = n + 2 THEN 1 ELSE k - 1]

Patterns == {"once", "twice", "again", "first"}

GalleryDoc(n, pattern, inFilm) ==
    LET order == IF n = 0 THEN <<>> ELSE ImgOrder(n, pattern) IN
    NoiseImgs
    \o [k \in 1..Len(order) |-> IF inFilm THEN FilmImg(order[k]) ELSE PageImg(order[k])]
    \o (IF inFilm THEN <<PageImg(n + 1)>> ELSE <<>>)

GalleryDocs ==
    {GalleryDoc(n, p, f) : n \in 0..MaxImgs, p \in Patterns, f \in BOOLEAN}

BrandOpts ==
    { <<>>,
      <<[tag |-> "div", dataTest |-> "brand",
         texts |-> T(<<"M", "e", "r", "k", ":", " ", "S", "o", "n", "y">>)]>>,
      <<[tag |-> "div", dataTest |-> "brand", texts |-> <<<<"M", "e", "r", "k", ":">>, <<"L", "G">>>>],
        [tag |-> "a", anc |-> {"div[data-test=brand]"}, texts |-> T(<<"L", "G">>)]>> }

DescriptionOpts ==
    Opt({ [tag |-> "div", dataTest |-> "description", cls |-> {"product-description"},
           texts |-> <<<<" ", "M", "o", "o", "i">>, <<"\n">>, <<"d", "i", "n", "g", " ">>>>] })

\* the description containers of the three rules, each absent, without text,
\* or with text
DescriptionDocs ==
    {a \o b \o c :
        a \in Opt({ [tag |-> "div", dataTest |-> "description", cls |-> {"product-description"}],
                    [tag |-> "div", dataTest |-> "description", cls |-> {"product-description"},
                     texts |-> T(<<" ", "\n">>)],
                    [tag |-> "div", dataTest |-> "description", cls |-> {"product-description"},
                     texts |-> T(<<" ", "A", "b", " ">>)] }),
        b \in Opt({ [tag |-> "span", dataTest |-> "description"],
                    [tag |-> "span", dataTest |-> "description", texts |-> T(<<"C", "d">>)] }),
        c \in Opt({ [tag |-> "section", id |-> "productDescription"],
                    [tag |-> "section", id |-> "productDescription",
                     texts |-> <<<<"E", "f", " ">>, <<" ", "g">>>>] })}

FieldEanTitle ==
    [tag |-> "dt", cls |-> {"specs__title"}, parent |-> 1, texts |-> T(<<"E", "A", "N">>)]
FieldEan == [tag |-> "dd", parent |-> 1, texts |-> T(EanText)]

FieldDocs ==
    {t \o i \o f \o l \o b \o e \o s \o g :
        t \in Opt({[tag |-> "span", dataTest |-> "title", texts |-> T(<<"T", "v">>)]}),
        i \in Opt({[tag |-> "span", cls |-> {"promo-price"}, dataTest |-> "price",
                    texts |-> T(<<"4", "9">>)]}),
        f \in FractionOpts,
        l \in ListPriceOpts,
        b \in BrandOpts,
        e \in {<<>>, <<FieldEanTitle, FieldEan>>},
        s \in DescriptionOpts,
        g \in {<<>>, <<FilmImg(1), FilmImg(2), FilmImg(1)>>}}

Docs ==
    TitleDocs \cup PriceDocs \cup LongPriceDocs \cup EanDocs \cup GalleryDocs
        \cup DescriptionDocs \cup FieldDocs

----------------------------------------------------------------------------
(* scraper/bol.py: scrape_bol_product *)

NoResult == [type |-> "none"]

Fields == {"source_url", "title", "brand", "price_text", "price_value",
           "list_price_text", "list_price_value", "ean", "description",
           "main_image", "all_images"}

\* the dict of lines 233-245 built from the extracted values of lines 209-231
ReturnedDict(u, d) ==
    LET gallery_images == extract_gallery_images(d) IN
    [ source_url |-> u,
      title |-> Title(d),
      brand |-> extract_brand(d),
      price_text |-> extract_price_parts(d)[1],
      price_value |-> extract_price_parts(d)[2],
      list_price_text |-> extract_list_price(d)[1],
      list_price_value |-> extract_list_price(d)[2],
      ean |-> extract_ean(d),
      description |-> extract_description(d),
      main_image |-> IF gallery_images # <<>> THEN gallery_images[1] ELSE <<>>,
      all_images |-> Str(Join(gallery_images, <<"|">>)) ]

\* main_image taken as the last gallery image
Record_last_image(u, d) ==
    LET gallery_images == extract_gallery_images(d) IN
    [ ReturnedDict(u, d) EXCEPT
        !.main_image = IF gallery_images # <<>>
                       THEN gallery_images[Len(gallery_images)] ELSE <<>> ]

\* a missing brand container raising instead of yielding ""
Record_brand_required(u, d) ==
    IF SelectOne(d, BrandDivSelector) = 0 THEN Exception("AttributeError")
    ELSE ReturnedDict(u, d)

\* what the extraction of scrape_bol_product gives for URL u and document d
Record(u, d) == ReturnedDict(u, d)

\* the values of the history variable: no row was read for the pending record,
\* the row read is now at index i, the row read was deleted
NotLoaded == [type |-> "none"]
At(i) == [type |-> "at", row |-> i]
Gone == [type |-> "gone"]

\* where the row is after the row at index row_id was dropped and the index reset
AfterDrop(l, row_id) ==
    IF l.type # "at" THEN l
    ELSE IF row_id < l.row THEN At(l.row - 1)
    ELSE IF row_id = l.row THEN Gone
    ELSE l

NotCalled == [type |-> "not-called"]
NoRow == [type |-> "no-row"]
NoRequest == [route |-> "none"]
NoResponse == [type |-> "no-response"]

\* The with-block is left by an exception: the context manager stops playwright;
\* browser.close() has run only if the finally clause was reached (closed = TRUE)
Raise(e, closed) ==
    /\ pc' = "raised"
    /\ result' = Exception(e)
    /\ playwright' = "stopped"
    /\ browser' = IF closed THEN "closed" ELSE browser

\* urlparse and the host check, lines 191-193
SBP_Validate ==
    /\ pc = "call"
    /\ IF HostOk(url)
       THEN pc' = "validated" /\ result' = result
       ELSE pc' = "raised" /\ result' = Exception("ValueError")
    /\ UNCHANGED <<url, playwright, browser, page, doc, web, session, excel, request, response, arg, ret,
                   loaded>>

\* with sync_playwright() as p, line 195
SBP_Start ==
    /\ pc = "validated"
    /\ \/ pc' = "started" /\ playwright' = "on" /\ result' = result
       \/ pc' = "raised" /\ playwright' = playwright /\ result' = Exception("Error")
    /\ UNCHANGED <<url, browser, page, doc, web, session, excel, request, response, arg, ret,
                   loaded>>

\* p.chromium.launch(headless=headless), line 196
SBP_Launch ==
    /\ pc = "started"
    /\ \/ pc' = "launched" /\ browser' = "launched" /\ UNCHANGED <<result, playwright>>
       \/ Raise("Error", FALSE)
    /\ UNCHANGED <<url, page, doc, web, session, excel, request, response, arg, ret,
                   loaded>>

\* browser.new_page(), line 197: before the try
SBP_NewPage ==
    /\ pc = "launched"
    /\ \/ pc' = "in-try" /\ page' = "created" /\ UNCHANGED <<result, playwright, browser>>
       \/ Raise("Error", FALSE) /\ page' = page
    /\ UNCHANGED <<url, doc, web, session, excel, request, response, arg, ret,
                   loaded>>

\* page.goto(url, ...) and the sleep, lines 201-202: inside the try
SBP_Goto ==
    /\ pc = "in-try"
    /\ \/ pc' = "loaded" /\ page' = "loaded" /\ UNCHANGED <<result, playwright, browser>>
       \/ Raise("TimeoutError", TRUE) /\ page' = page
    /\ UNCHANGED <<url, doc, web, session, excel, request, response, arg, ret,
                   loaded>>

\* page.content() and BeautifulSoup(html, 'lxml'), lines 205-206
SBP_Content ==
    /\ pc = "loaded"
    /\ \/ pc' = "parsed" /\ doc' = web /\ UNCHANGED <<result, playwright, browser>>
       \/ Raise("Error", TRUE) /\ doc' = doc
    /\ UNCHANGED <<url, page, web, session, excel, request, response, arg, ret,
                   loaded>>

\* the extraction, the return, the finally clause and the end of the with-block,
\* lines 209-248
SBP_Extract ==
    /\ pc = "parsed"
    /\ LET r == Record(url, doc) IN
       IF IsException(r) THEN Raise(r.exc, TRUE)
       ELSE /\ pc' = "returned"
            /\ result' = r
            /\ browser' = "closed"
            /\ playwright' = "stopped"
    /\ UNCHANGED <<url, page, doc, web, session, excel, request, response, arg, ret,
                   loaded>>

ScrapeNext ==
    \/ SBP_Validate \/ SBP_Start \/ SBP_Launch \/ SBP_NewPage
    \/ SBP_Goto \/ SBP_Content \/ SBP_Extract

\* the URLs passed to scrape_bol_product directly
DirectUrls == {<<>>, UrlBol, UrlExample, UrlNoScheme, UrlTokenInPath, UrlLookalike}

\* one call scrape_bol_product(url) against a site serving any of the documents
ScrapeInit ==
    /\ pc = "call"
    /\ url \in DirectUrls
    /\ web \in Docs
    /\ playwright = "off" /\ browser = "none" /\ page = "none"
    /\ doc = NoDoc /\ result = NoResult
    /\ session = [current_row |-> NoRow] /\ excel = <<>>
    /\ request = NoRequest /\ response = NoResponse
    /\ loaded = NotLoaded
    /\ arg = <<>> /\ ret = NotCalled

ScrapeSpec == ScrapeInit /\ [][ScrapeNext]_vars

----------------------------------------------------------------------------
(* to_float_price called directly *)

PriceAlphabet == {"0", "4", "9", ",", ".", "a", "-"}

\* the strings over the alphabet of length at most n
Strings(n) == UNION {[1..k -> PriceAlphabet] : k \in 0..n}

CallToFloatPrice ==
    /\ ret = NotCalled
    /\ ret' = to_float_price(arg)
    /\ UNCHANGED <<pc, url, playwright, browser, page, doc, result, web, session,
                   excel, request, response, arg, loaded>>

PriceInit ==
    /\ arg \in Strings(MaxLen)
    /\ ret = NotCalled
    /\ pc = "idle" /\ url = <<>> /\ web = <<>>
    /\ playwright = "off" /\ browser = "none" /\ page = "none"
    /\ doc = NoDoc /\ result = NoResult
    /\ session = [current_row |-> NoRow] /\ excel = <<>>
    /\ request = NoRequest /\ response = NoResponse
    /\ loaded = NotLoaded

PriceSpec == PriceInit /\ [][CallToFloatPrice]_vars


----------------------------------------------------------------------------
(* app.py: helpers of the workflow *)

\* s.split(c)
RECURSIVE Split(_, _)
Split(s, c) ==
    LET k == FirstOf(s, {c}) IN
    IF k > Len(s) THEN <<s>>
    ELSE <<SubSeq(s, 1, k - 1)>> \o Split(SubSeq(s, k + 1, Len(s)), c)

\* validate_bol_url(url)
validate_bol_url(u) == Netloc(u) # <<>> /\ Contains(Netloc(u), BolCom)

\* urlparse(u).scheme
Scheme(u) ==
    IF AfterScheme(u) = u THEN <<>>
    ELSE LowerStr(SubSeq(u, 1, FirstOf(u, {":"}) - 1))

Http == <<"h", "t", "t", "p">>

\* validate_image_url_for_bol(image_url)
validate_image_url_for_bol(u) ==
    /\ u # <<>>
    /\ \E ext \in {Jpg, <<".", "j", "p", "e", "g">>, <<".", "p", "n", "g">>} :
          EndsWith(LowerStr(u), ext)
    /\ " " \notin {u[i] : i \in 1..Len(u)}
    /\ Netloc(u) # <<>> /\ StartsWith(Scheme(u), Http)
    /\ \A short \in {<<"b", "i", "t", ".", "l", "y">>,
                     <<"t", "i", "n", "y", "u", "r", "l", ".", "c", "o", "m">>,
                     <<"s", "h", "o", "r", "t", ".", "l", "i", "n", "k">>,
                     <<"t", ".", "c", "o">>} :
          ~Contains(LowerStr(Netloc(u)), short)
    /\ ~Contains(LowerStr(Netloc(u)), <<"d", "r", "o", "p", "b", "o", "x", ".", "c", "o", "m">>)
    /\ \A small \in {<<"t", "h", "u", "m", "b">>, <<"s", "m", "a", "l", "l">>,
                     <<"m", "i", "n", "i">>, <<"i", "c", "o", "n">>} :
          ~Contains(LowerStr(u), small)

\* IMAGE_BASE_URL/images/products/<product_id>_<index>.jpg, for one product id
LocalUrl(i) ==
    Http \o <<":", "/", "/", "l", "o", "c", "a", "l", "/", "i", "d", "_">> \o NumStr(i) \o Jpg

\* download_and_save_image(image_url, product_id, i): the local URL, None (here
\* <<>>) when the download fails; `ok` holds the indices whose download succeeds
download_and_save_image(u, i, ok) ==
    IF u = <<>> \/ ~StartsWith(u, Http) THEN <<>>
    ELSE IF i \in ok THEN LocalUrl(i) ELSE <<>>

\* the URL kept for image i: the local one, else the original when it is valid
KeptUrl(u, i, ok) ==
    IF download_and_save_image(u, i, ok) # <<>> THEN <<download_and_save_image(u, i, ok)>>
    ELSE IF validate_image_url_for_bol(u) THEN <<u>> ELSE <<>>

\* the [:10] of download_product_images
MaxDownloads == 10

\* download_product_images(product_data)
download_product_images(data, ok) ==
    LET main == IF data.main_image = <<>> THEN <<>> ELSE KeptUrl(data.main_image, 0, ok)
        urls == IF data.all_images.val = <<>> THEN <<>>
                ELSE Take(Split(data.all_images.val, "|"), MaxDownloads)
        kept == Concat([i \in 1..Len(urls) |->
                           IF Strip(urls[i]) = <<>> THEN <<>>
                           ELSE KeptUrl(Strip(urls[i]), i, ok)]) IN
    [data EXCEPT !.main_image = IF main = <<>> THEN <<>> ELSE main[1],
                 !.all_images = Str(Join(kept, <<"|">>))]

Nieuw == <<"N", "i", "e", "u", "w">>
Ja == <<"j", "a">>
\* the default of 'stock'
DefaultStock == 69

PyInt(n) == [type |-> "int", val |-> n]
\* the float NaN pandas reads from an empty cell
NaN == [type |-> "nan"]

\* The values of a row carry their Python type: a cell read back from the
\* spreadsheet may hold a float NaN where a str was written.
PyRow(data) ==
    [k \in DOMAIN data |->
        IF k \in {"price_value", "list_price_value", "all_images"} THEN data[k]
        ELSE Str(data[k])]

\* product_data after the defaults scrape() adds, lines 292-299
WithDefaults(data) ==
    PyRow(data) @@
        [condition |-> Str(Nieuw), condition_comment |-> Str(<<>>),
         internal_reference |-> Str(<<>>), stock |-> PyInt(DefaultStock),
         delivery_time |-> Str(<<>>), delivery_method |-> Str(<<>>),
         for_sale |-> Str(Ja), marketplace_participant |-> Str(<<>>)]

\* data.get(k, default)
DictGet(data, k, default) == IF k \in DOMAIN data THEN data[k] ELSE default

\* map_data_to_excel_columns(data); a column name is written with _ for its spaces
map_data_to_excel_columns(data) ==
    [ Productnaam |-> DictGet(data, "title", Str(<<>>)),
      Beschrijving |-> DictGet(data, "description", Str(<<>>)),
      Interne_referentie |-> DictGet(data, "internal_reference", Str(<<>>)),
      EAN |-> DictGet(data, "ean", Str(<<>>)),
      Conditie |-> DictGet(data, "condition", Str(<<>>)),
      Conditie_commentaar |-> DictGet(data, "condition_comment", Str(<<>>)),
      Voorraad |-> DictGet(data, "stock", PyInt(DefaultStock)),
      Prijs |-> DictGet(data, "list_price_value", None),
      Levertijd |-> DictGet(data, "delivery_time", Str(<<>>)),
      Afleverwijze |-> DictGet(data, "delivery_method", Str(<<>>)),
      Te_koop |-> DictGet(data, "for_sale", Str(Ja)),
      Hoofdafbeelding |-> DictGet(data, "main_image", Str(<<>>)),
      Marktdeelnemer |-> DictGet(data, "marketplace_participant", Str(<<>>)),
      Additionele_afbeeldingen |-> DictGet(data, "all_images", Str(<<>>)) ]

\* a cell of the file that holds nothing
EmptyCell == [type |-> "empty"]

\* DataFrame.to_excel on one value: '', None and NaN leave the cell empty
WriteCell(v) == IF v = Str(<<>>) \/ v = None \/ v = NaN THEN EmptyCell ELSE v

\* df.to_excel(OUTPUT_EXCEL, index=False): the rows of the file written from df
to_excel(df) ==
    [i \in 1..Len(df) |-> [c \in DOMAIN df[i] |-> WriteCell(df[i][c])]]

\* pd.read_excel on one cell: an empty cell reads as NaN
ReadCell(v) == IF v = EmptyCell THEN NaN ELSE v

\* get_excel_data(): the rows of the file as read_excel returns them
get_excel_data(rows) ==
    [i \in 1..Len(rows) |-> [c \in DOMAIN rows[i] |-> ReadCell(rows[i][c])]]

\* internal_data of edit_row, lines 477-495, for the row read at index row_id
InternalData(row, row_id) ==
    [ source_url |-> Str(<<>>), title |-> row.Productnaam, brand |-> Str(<<>>),
      list_price_value |-> row.Prijs, ean |-> row.EAN,
      description |-> row.Beschrijving, main_image |-> row.Hoofdafbeelding,
      all_images |-> row.Additionele_afbeeldingen, condition |-> row.Conditie,
      condition_comment |-> row.Conditie_commentaar,
      internal_reference |-> row.Interne_referentie, stock |-> row.Voorraad,
      delivery_time |-> row.Levertijd, delivery_method |-> row.Afleverwijze,
      for_sale |-> row.Te_koop, marketplace_participant |-> row.Marktdeelnemer,
      edit_row_id |-> PyInt(row_id) ]

\* field_mapping of edit(), lines 323-338
FieldMapping ==
    [ Productnaam |-> "title", Beschrijving |-> "description",
      Interne_referentie |-> "internal_reference", EAN |-> "ean",
      Conditie |-> "condition", Conditie_commentaar |-> "condition_comment",
      Voorraad |-> "stock", Prijs |-> "list_price_value",
      Levertijd |-> "delivery_time", Afleverwijze |-> "delivery_method",
      Te_koop |-> "for_sale", Hoofdafbeelding |-> "main_image",
      Marktdeelnemer |-> "marketplace_participant",
      Additionele_afbeeldingen |-> "all_images" ]

\* float(value) if value else None, None on ValueError; for the form values of
\* the model, which write a float with digits and periods only
FormPrice(value) ==
    IF value = <<>> THEN None
    ELSE IF \E i \in 1..Len(value) : value[i] \notin Digits \cup {"."} THEN None
    ELSE IF IsException(ParseFloat(value)) THEN None ELSE ParseFloat(value)

\* int(value) if value else 69, 69 on ValueError; an int is written with digits
FormStock(value) ==
    IF value = <<>> \/ \E i \in 1..Len(value) : value[i] \notin Digits
    THEN PyInt(DefaultStock) ELSE PyInt(ToNat(value))

\* the value edit() stores for the internal field k from the raw form value
FormValue(k, raw) ==
    LET value == Strip(raw) IN
    IF k = "list_price_value" THEN FormPrice(value)
    ELSE IF k = "stock" THEN FormStock(value)
    ELSE Str(value)

\* current_data after the loop of edit() over the submitted form, lines 340-356
ApplyForm(data, form) ==
    LET set == {FieldMapping[f] : f \in DOMAIN form}
        fieldOf(k) == CHOOSE f \in DOMAIN form : FieldMapping[f] = k IN
    [k \in DOMAIN data \cup set |->
        IF k \in set THEN FormValue(k, form[fieldOf(k)]) ELSE data[k]]

\* the dict without key k: dict.pop(k)
Without(data, k) == [j \in DOMAIN data \ {k} |-> data[j]]

\* df.at[i, col] = value for every column: row i (0-based) replaced
SetRow(rows, i, row) == [rows EXCEPT ![i + 1] = row]

\* df.drop(df.index[i]).reset_index(drop=True)
DropRow(rows, i) == SubSeq(rows, 1, i) \o SubSeq(rows, i + 2, Len(rows))

Redirect(to, flash) == [type |-> "redirect", to |-> to, flash |-> flash]
\* render_template(template, data=session['current_row']): the page shows the row of the session
Render(template) == [type |-> "page", template |-> template]

----------------------------------------------------------------------------
(* app.py: the routes.  One client sends one request at a time; its session   *)
(* is the cookie it sends back with every request.                            *)

HasRow == session.current_row # NoRow

\* the fields of the scrape left as they were at the start of a request
ScrapeIdle == UNCHANGED <<url, playwright, browser, page, doc, result, web, arg, ret>>

\* the locals of scrape() and of the call it made are gone when the request ends
ScrapeDone ==
    /\ url' = <<>>
    /\ playwright' = "off" /\ browser' = "none" /\ page' = "none"
    /\ doc' = NoDoc /\ result' = NoResult

\* POST /scrape up to the call of scrape_bol_product, lines 274-286
Scrape(u) ==
    /\ pc = "idle"
    /\ request' = [route |-> "scrape", method |-> "POST", url |-> u]
    /\ IF Strip(u) = <<>> \/ ~validate_bol_url(Strip(u))
       THEN /\ pc' = "idle"
            /\ response' = Redirect("index", "error")
            /\ ScrapeDone
       ELSE /\ pc' = "call"
            /\ url' = Strip(u)
            /\ playwright' = "off" /\ browser' = "none" /\ page' = "none"
            /\ doc' = NoDoc /\ result' = NoResult
            /\ response' = response
    /\ UNCHANGED <<web, session, excel, arg, ret, loaded>>

\* the row stored in the session together with the redirect to the index page
ScrapeExcept_stores ==
    /\ pc = "raised"
    /\ pc' = "idle"
    /\ session' = [session EXCEPT !.current_row = WithDefaults(Record(url, <<>>))]
    /\ response' = Redirect("index", "error")
    /\ ScrapeDone
    /\ UNCHANGED <<web, excel, request, arg, ret, loaded>>

\* POST /scrape when scrape_bol_product raised, lines 306-308
ScrapeExcept ==
    /\ pc = "raised"
    /\ pc' = "idle"
    /\ response' = Redirect("index", "error")
    /\ ScrapeDone
    /\ UNCHANGED <<web, session, excel, request, arg, ret, loaded>>

\* the outcomes of the image downloads of one request: the indices that succeed
NetOutcomes == {{}, 0..MaxDownloads}

\* POST /scrape after scrape_bol_product returned, lines 289-304
ScrapeReturn ==
    /\ pc = "returned"
    /\ pc' = "idle"
    /\ \E ok \in NetOutcomes :
          session' = [session EXCEPT
                         !.current_row = WithDefaults(download_product_images(result, ok))]
    /\ response' = Redirect("edit", "")
    /\ loaded' = NotLoaded
    /\ ScrapeDone
    /\ UNCHANGED <<web, excel, request, arg, ret>>

\* GET /edit, lines 314-316 and 362
EditGet ==
    /\ pc = "idle"
    /\ request' = [route |-> "edit", method |-> "GET"]
    /\ response' = IF ~HasRow THEN Redirect("index", "error")
                   ELSE Render("edit")
    /\ UNCHANGED <<pc, session, excel, loaded>> /\ ScrapeIdle

\* POST /edit with the submitted form, lines 314-359
EditPost(form) ==
    /\ pc = "idle"
    /\ request' = [route |-> "edit", method |-> "POST"]
    /\ IF ~HasRow
       THEN response' = Redirect("index", "error") /\ session' = session
       ELSE /\ session' = [session EXCEPT !.current_row = ApplyForm(session.current_row, form)]
            /\ response' = Redirect("confirm", "")
    /\ UNCHANGED <<pc, excel, loaded>> /\ ScrapeIdle

\* GET /confirm, lines 368-370 and 409
ConfirmGet ==
    /\ pc = "idle"
    /\ request' = [route |-> "confirm", method |-> "GET"]
    /\ response' = IF ~HasRow THEN Redirect("index", "error")
                   ELSE Render("confirm")
    /\ UNCHANGED <<pc, session, excel, loaded>> /\ ScrapeIdle

\* POST /confirm without a row in the session, lines 368-370
ConfirmPostNoRow ==
    /\ pc = "idle" /\ ~HasRow
    /\ request' = [route |-> "confirm", method |-> "POST"]
    /\ response' = Redirect("index", "error")
    /\ UNCHANGED <<pc, session, excel, loaded>> /\ ScrapeIdle

\* POST /confirm of a row loaded by edit_row, lines 378-395 and 402-409.
\* current_data.pop('edit_row_id') changes the dict held by the session; when
\* reading or writing the spreadsheet raises, flash() marks the session modified
\* and the cookie is written from that dict.
ConfirmPostUpdate ==
    /\ pc = "idle" /\ HasRow /\ "edit_row_id" \in DOMAIN session.current_row
    /\ request' = [route |-> "confirm", method |-> "POST"]
    /\ LET edit_row_id == session.current_row.edit_row_id.val
           current_data == Without(session.current_row, "edit_row_id")
           df == get_excel_data(excel) IN
       \/ /\ edit_row_id < Len(df)
          /\ excel' = to_excel(SetRow(df, edit_row_id, map_data_to_excel_columns(current_data)))
          /\ session' = [session EXCEPT !.current_row = NoRow]
          /\ response' = Redirect("rows", "success")
          /\ loaded' = NotLoaded
       \/ /\ edit_row_id >= Len(df)
          /\ excel' = excel
          /\ session' = [session EXCEPT !.current_row = NoRow]
          /\ response' = Redirect("rows", "error")
          /\ loaded' = NotLoaded
       \/ /\ excel' = excel
          /\ session' = [session EXCEPT !.current_row = current_data]
          /\ response' = Render("confirm")
          /\ loaded' = loaded
    /\ UNCHANGED pc /\ ScrapeIdle

\* POST /confirm of a scraped row, lines 396-409, with append_to_excel
ConfirmPostAppend ==
    /\ pc = "idle" /\ HasRow /\ "edit_row_id" \notin DOMAIN session.current_row
    /\ request' = [route |-> "confirm", method |-> "POST"]
    /\ \/ /\ Len(excel) < MaxRows
          /\ excel' = to_excel(get_excel_data(excel)
                                 \o <<map_data_to_excel_columns(session.current_row)>>)
          /\ session' = [session EXCEPT !.current_row = NoRow]
          /\ response' = Redirect("rows", "success")
          /\ loaded' = NotLoaded
       \/ /\ excel' = excel
          /\ session' = session
          /\ response' = Render("confirm")
          /\ loaded' = loaded
    /\ UNCHANGED pc /\ ScrapeIdle

\* POST /edit_row/<row_id>, lines 466-504
EditRow(row_id) ==
    /\ pc = "idle"
    /\ request' = [route |-> "edit_row", method |-> "POST"]
    /\ LET df == get_excel_data(excel) IN
       \/ /\ row_id >= Len(df)
          /\ session' = session
          /\ response' = Redirect("rows", "error")
          /\ loaded' = loaded
       \/ /\ row_id < Len(df)
          /\ session' = [session EXCEPT !.current_row = InternalData(df[row_id + 1], row_id)]
          /\ response' = Redirect("edit", "")
          /\ loaded' = At(row_id)
       \/ /\ session' = session
          /\ response' = Redirect("rows", "error")
          /\ loaded' = loaded
    /\ UNCHANGED <<pc, excel>> /\ ScrapeIdle

\* POST /delete_row/<row_id>, lines 510-528
DeleteRow(row_id) ==
    /\ pc = "idle"
    /\ request' = [route |-> "delete_row", method |-> "POST"]
    /\ LET df == get_excel_data(excel) IN
       \/ /\ row_id >= Len(df)
          /\ excel' = excel
          /\ response' = Redirect("rows", "error")
          /\ loaded' = loaded
       \/ /\ row_id < Len(df)
          /\ excel' = to_excel(DropRow(df, row_id))
          /\ response' = Redirect("rows", "success")
          /\ loaded' = AfterDrop(loaded, row_id)
       \/ /\ excel' = excel
          /\ response' = Redirect("rows", "error")
          /\ loaded' = loaded
    /\ UNCHANGED <<pc, session>> /\ ScrapeIdle

\* the URLs the operator submits
FormUrls == {<<" ">>, UrlBolPadded, UrlExample}

\* the forms the operator submits on the edit page
Forms ==
    { <<>>,
      [Productnaam |-> <<" ", "X">>, Prijs |-> <<"1", "2", ".", "5">>, Voorraad |-> <<"a">>] }

\* the documents the site serves in the workflow
WorkflowDocs ==
    { <<>>,
      <<[tag |-> "span", dataTest |-> "title", texts |-> T(<<"T", "v">>)],
        FieldEanTitle, FieldEan, FilmImg(1), FilmImg(2)>> }

Next ==
    \/ \E u \in FormUrls : Scrape(u)
    \/ ScrapeNext
    \/ ScrapeReturn \/ ScrapeExcept
    \/ EditGet \/ (\E form \in Forms : EditPost(form))
    \/ ConfirmGet \/ ConfirmPostNoRow \/ ConfirmPostUpdate \/ ConfirmPostAppend
    \/ (\E row_id \in 0..MaxRows : EditRow(row_id))
    \/ (\E row_id \in 0..MaxRows : DeleteRow(row_id))

Init ==
    /\ pc = "idle"
    /\ url = <<>>
    /\ web \in WorkflowDocs
    /\ playwright = "off" /\ browser = "none" /\ page = "none"
    /\ doc = NoDoc /\ result = NoResult
    /\ session = [current_row |-> NoRow] /\ excel = <<>>
    /\ request = NoRequest /\ response = NoResponse
    /\ loaded = NotLoaded
    /\ arg = <<>> /\ ret = NotCalled

Spec == Init /\ [][Next]_vars

----------------------------------------------------------------------------
(* Properties of the extraction, stated apart from the code's own loops *)

\* what rule sel yields on d as text: "" when it matches nothing
RuleText(d, sel) ==
    IF Select(d, sel) = {} THEN <<>> ELSE GetTextStrip(d[Min(Select(d, sel))])

\* the first non-empty entry of vals, "" if there is none
FirstNonEmpty(vals) ==
    IF \E k \in 1..Len(vals) : vals[k] # <<>>
    THEN vals[Min({k \in 1..Len(vals) : vals[k] # <<>>})]
    ELSE <<>>

\* C1: text(selectors, soup) over the title chain is the stripped text of the first
\* rule, in list order, whose element is present and has non-empty text, and ""
\* only when no rule has one: a present but empty element does not stop the chain.
C1_TextIsFirstNonEmptyRule ==
    doc # NoDoc =>
        text(TitleSelectors, doc)
            = FirstNonEmpty([k \in 1..Len(TitleSelectors) |-> RuleText(doc, TitleSelectors[k])])

\* the host of u is empty or lacks the marketplace token
InvalidHost(u) == Netloc(u) = <<>> \/ ~Contains(Netloc(u), BolCom)

\* C2: for a URL whose host is empty or lacks the marketplace token the call fails
\* with the invalid-input error before anything is rendered: no playwright
\* session, no browser, no page, no document and no record, in any state.
C2_InvalidUrlFailsBeforeRendering ==
    InvalidHost(url) =>
        /\ pc \in {"call", "raised"}
        /\ pc = "raised" => result = Exception("ValueError")
        /\ pc = "call" => result = NoResult
        /\ playwright = "off" /\ browser = "none" /\ page = "none" /\ doc = NoDoc

C2_Witness ==
    /\ url = UrlTokenInPath /\ pc = "raised"
    /\ result = Exception("ValueError") /\ browser = "none"

\* C3: once the browser is launched it is closed on every exit path: no call ends
\* (returned or raised) with a launched browser that was never closed.
C3_BrowserClosedOnEveryExit ==
    pc \in {"returned", "raised"} => browser # "launched"

\* the candidates of the gallery: the qualifying sources of the filmstrip images,
\* or of all images when the filmstrip has none
Candidates(d) ==
    IF Collect(d, FilmstripSelector) # <<>>
    THEN Collect(d, FilmstripSelector) ELSE Collect(d, ImgSelector)

Range(s) == {s[i] : i \in 1..Len(s)}
FirstPos(s, x) == Min({i \in 1..Len(s) : s[i] = x})

\* C4: the gallery has no duplicates, at most 20 entries, holds min(20, number of
\* distinct candidates) entries, and lists the candidates in first-seen order
\* without skipping one: deduplication comes before truncation.
C4_GalleryDedupedThenCapped ==
    doc # NoDoc =>
        LET g == extract_gallery_images(doc)
            c == Candidates(doc)
            n == Cardinality(Range(c)) IN
        /\ Len(g) <= 20
        /\ \A i, j \in 1..Len(g) : i # j => g[i] # g[j]
        /\ Len(g) = IF n < 20 THEN n ELSE 20
        /\ Range(g) \subseteq Range(c)
        /\ \A i, j \in 1..Len(g) : i < j => FirstPos(c, g[i]) < FirstPos(c, g[j])
        /\ \A x \in Range(c) : \A i \in 1..Len(g) :
              FirstPos(c, x) < FirstPos(c, g[i]) => x \in Range(g)

C4_Witness ==
    /\ pc = "returned"
    /\ Cardinality(Range(Candidates(doc))) = 25
    /\ Len(Candidates(doc)) = 50
    /\ Len(extract_gallery_images(doc)) = 20
    /\ extract_gallery_images(doc)[20] = ImgUrl(20)


Pow10(k) == IF k = 0 THEN 1 ELSE IF k = 1 THEN 10 ELSE IF k = 2 THEN 100
            ELSE IF k = 3 THEN 1000 ELSE IF k = 4 THEN 10000 ELSE IF k = 5 THEN 100000
            ELSE IF k = 6 THEN 1000000 ELSE 10000000

\* s is a locale-formatted numeral: digits, or digits, one comma, digits
LocaleNumeral(s) ==
    /\ s # <<>>
    /\ \A i \in 1..Len(s) : s[i] \in Digits \cup {","}
    /\ Cardinality({i \in 1..Len(s) : s[i] = ","}) <= 1
    /\ s[1] # "," /\ s[Len(s)] # ","

\* v is the number the locale numeral s writes: with f fraction digits,
\* v * 10^f = (integer digits followed by fraction digits)
IsValueOf(v, s) ==
    LET c == FirstOf(s, {","})
        f == IF c > Len(s) THEN 0 ELSE Len(s) - c IN
    /\ v.type = "float"
    /\ v.exp <= f
    /\ v.mant * Pow10(f - v.exp) = ToNat(Keep(s, Digits))
    /\ v.exp > 0 => v.mant % 10 # 0

\* the characters to_float_price keeps form a numeral float() accepts: digits
\* around at most one separator, with at least one digit
CleanedParses(s) ==
    /\ Cardinality({i \in 1..Len(s) : s[i] \in {",", "."}}) <= 1
    /\ \E i \in 1..Len(s) : s[i] \in Digits

\* C5: to_float_price never raises; a locale-formatted numeral gives its number
\* ("49,99" gives 49.99); empty input, input without digit, comma or period, and
\* input whose cleaned form is no numeral give None.
C5_ToFloatPrice ==
    ret # NotCalled =>
        /\ ret.type \in {"None", "float"}
        /\ LocaleNumeral(arg) => IsValueOf(ret, arg)
        /\ arg = <<"4", "9", ",", "9", "9">> => ret = Float(4999, 2)
        /\ arg = <<>> => ret = None
        /\ (\A i \in 1..Len(arg) : arg[i] \notin Digits \cup {",", "."}) => ret = None
        /\ ~CleanedParses(arg) => ret = None
        /\ CleanedParses(arg) => ret.type = "float"

C5_Witness == arg = <<"4", "9", ",", "9", "9">> /\ ret = Float(4999, 2)

\* what a single-node price rule yields: the content attribute of a meta element,
\* the stripped text of any other, "" when the rule matches nothing
PriceRuleValue(d, sel) ==
    IF Select(d, sel) = {} THEN <<>>
    ELSE LET e == d[Min(Select(d, sel))] IN
         IF e.tag = "meta" THEN (IF Has(e, "content") THEN e.content ELSE <<>>)
         ELSE GetTextStrip(e)

\* C6: with both the integer and the fraction node, price_text is integer text,
\* a comma, fraction text; otherwise it is the first non-empty value of the
\* fallback rules in priority order, "" when none has one; price_value is
\* to_float_price(price_text); with no list-price node the list price is "" / None.
C6_PriceParts ==
    pc = "returned" =>
        /\ IF Select(doc, IntegerSelector) # {} /\ Select(doc, FractionSelector) # {}
           THEN result.price_text = RuleText(doc, IntegerSelector) \o <<",">>
                                        \o RuleText(doc, FractionSelector)
           ELSE result.price_text =
                    FirstNonEmpty([k \in 1..3 |-> PriceRuleValue(doc, PriceFallbackSelectors[k])])
        /\ result.price_value = to_float_price(result.price_text)
        /\ result.price_text = <<>> => result.price_value = None
        /\ result.price_text = <<"4", "9", ",", "9", "9">> => result.price_value = Float(4999, 2)
        /\ (\A k \in 1..3 : Select(doc, ListPriceSelectors[k]) = {}) =>
              result.list_price_text = <<>> /\ result.list_price_value = None

\* the price block node is present but blank, the meta amount is taken
C6_Witness ==
    /\ pc = "returned"
    /\ Select(doc, FractionSelector) = {}
    /\ Select(doc, PriceFallbackSelectors[1]) # {}
    /\ Select(doc, PriceFallbackSelectors[3]) # {}
    /\ result.price_text = <<"1", "9", ".", "9", "5">>
    /\ result.price_value = Float(1995, 2)
    /\ result.list_price_text = <<>> /\ result.list_price_value = None

\* C7: a parsed document always yields a record of all eleven fields; a field
\* whose nodes are missing holds its default and the others hold what their nodes
\* give; the only error of the extraction is the invalid-URL one, others are the
\* renderer's and are raised before any document is parsed.
C7_RecordAlwaysConstructed ==
    /\ pc = "raised" =>
          /\ doc = NoDoc
          /\ (result.exc = "ValueError") <=> InvalidHost(url)
    /\ pc = "returned" =>
          /\ DOMAIN result = Fields
          /\ result.source_url = url
          /\ result.price_value.type \in {"None", "float"}
          /\ result.list_price_value.type \in {"None", "float"}
          /\ (\A k \in 1..4 : Select(doc, TitleSelectors[k]) = {}) => result.title = <<>>
          /\ RuleText(doc, TitleSelectors[1]) # <<>> =>
                result.title = RuleText(doc, TitleSelectors[1])
          /\ (\A i \in 1..Len(doc) : ~Has(doc[i], "dataTest") \/ doc[i].dataTest # "price")
                /\ Select(doc, PriceFallbackSelectors[2]) = {}
                => result.price_text = <<>> /\ result.price_value = None
          /\ Select(doc, IntegerSelector) # {} /\ Select(doc, FractionSelector) # {} =>
                result.price_text # <<>>
          /\ (\A k \in 1..3 : Select(doc, ListPriceSelectors[k]) = {}) =>
                result.list_price_text = <<>> /\ result.list_price_value = None
          /\ RuleText(doc, ListPriceSelectors[1]) # <<>> =>
                result.list_price_text = RuleText(doc, ListPriceSelectors[1])
          /\ Select(doc, BrandDivSelector) = {} /\ Select(doc, BrandLinkSelector) = {} =>
                result.brand = <<>>
          /\ Select(doc, BrandLinkSelector) # {} =>
                result.brand = RuleText(doc, BrandLinkSelector)
          /\ (\A i \in 1..Len(doc) : doc[i].tag \notin {"dd", "td"}) => result.ean = <<>>
          /\ FieldEan \in Range(doc) => result.ean = <<"8", "7", "1", "1", "5", "9", "9">>
          /\ (\A k \in 1..3 : Select(doc, DescriptionSelectors[k]) = {}) =>
                result.description = <<>>
          /\ Select(doc, DescriptionSelectors[1]) # {} =>
                result.description = RuleText(doc, DescriptionSelectors[1])
          /\ Select(doc, ImgSelector) = {} =>
                result.main_image = <<>> /\ result.all_images.val = <<>>
          /\ FilmImg(1) \in Range(doc) /\ doc[1] # NoiseImgs[1] =>
                result.main_image = ImgUrl(1)

\* every extractor misses
C7_Witness ==
    /\ pc = "returned" /\ doc = <<>>
    /\ result = [source_url |-> url, title |-> <<>>, brand |-> <<>>,
                 price_text |-> <<>>, price_value |-> None,
                 list_price_text |-> <<>>, list_price_value |-> None,
                 ean |-> <<>>, description |-> <<>>, main_image |-> <<>>,
                 all_images |-> Str(<<>>)]


\* positions of the elements of tag (and class cls, when not "") whose single
\* text node contains the identifier label, ignoring case
LabelNodes(d, tag, cls) ==
    {i \in 1..Len(d) :
        /\ d[i].tag = tag
        /\ cls # "" => cls \in Classes(d[i])
        /\ Len(TextNodes(d[i])) = 1
        /\ \E k \in 0..(Len(TextNodes(d[i])[1]) - 3) :
              /\ TextNodes(d[i])[1][k + 1] \in {"E", "e"}
              /\ TextNodes(d[i])[1][k + 2] \in {"A", "a"}
              /\ TextNodes(d[i])[1][k + 3] \in {"N", "n"}}

\* positions of the value node of a structure: the first sibling of tag `val`
\* after the first label node, none when either is missing
ValueNodes(d, tag, cls, val) ==
    IF LabelNodes(d, tag, cls) = {} THEN {}
    ELSE LET l == Min(LabelNodes(d, tag, cls))
             later == {j \in (l + 1)..Len(d) :
                          d[j].tag = val /\ Has(d[j], "parent") /\ d[j].parent = d[l].parent} IN
         IF later = {} THEN {} ELSE {Min(later)}

\* the digits of the text of the value node, "" when there is no value node
ValueDigits(d, nodes) ==
    IF nodes = {} THEN <<>>
    ELSE Keep(GetTextStrip(d[CHOOSE j \in nodes : TRUE]), Digits)

\* C8 as stated: digits only; the value of (a), or else of (b), with (b) used
\* whenever (a) gives no value; "" exactly when the label is absent in both
\* structures; "EAN: 8 711 5 99" gives "871159".
C8_EanAsStated ==
    pc = "returned" =>
        LET a == ValueDigits(doc, ValueNodes(doc, "dt", "specs__title", "dd"))
            b == ValueDigits(doc, ValueNodes(doc, "th", "", "td")) IN
        /\ \A i \in 1..Len(result.ean) : result.ean[i] \in Digits
        /\ result.ean = IF a # <<>> THEN a ELSE b
        /\ result.ean = <<>> <=>
              LabelNodes(doc, "dt", "specs__title") = {} /\ LabelNodes(doc, "th", "") = {}
        /\ FieldEan \in Range(doc) => result.ean = <<"8", "7", "1", "1", "5", "9">>

\* C8 amended: digits only; the digits of the value node of (a) when (a) has a
\* value node, else of the value node of (b), else ""; "" when the label is
\* absent in both structures; "EAN: 8 711 5 99" gives "8711599".
C8_Ean ==
    pc = "returned" =>
        LET na == ValueNodes(doc, "dt", "specs__title", "dd")
            nb == ValueNodes(doc, "th", "", "td") IN
        /\ \A i \in 1..Len(result.ean) : result.ean[i] \in Digits
        /\ result.ean = IF na # {} THEN ValueDigits(doc, na) ELSE ValueDigits(doc, nb)
        /\ LabelNodes(doc, "dt", "specs__title") = {} /\ LabelNodes(doc, "th", "") = {}
              => result.ean = <<>>
        /\ (\E i \in 1..Len(doc) : doc[i] = FieldEan /\ i \in na) =>
              result.ean = <<"8", "7", "1", "1", "5", "9", "9">>

\* the title of (a) has no value node after it, the table cell of (b) is read
C8_Witness ==
    /\ pc = "returned"
    /\ LabelNodes(doc, "dt", "specs__title") # {}
    /\ ValueNodes(doc, "dt", "specs__title", "dd") = {}
    /\ result.ean = <<"4", "0", "0", "6", "3", "8", "1">>

RECURSIVE Piped(_)
Piped(g) == IF g = <<>> THEN <<>> ELSE g[1] \o <<"|">> \o Piped(Tail(g))

ScrapeEnds == request'.route = "scrape" /\ pc' = "idle"

\* the fields scrape() adds to the record
DefaultFields == {"condition", "condition_comment", "internal_reference", "stock",
                  "delivery_time", "delivery_method", "for_sale", "marketplace_participant"}

\* C10: a POST /scrape whose URL is empty or fails the host check, or whose scrape
\* raised, redirects to the index page and leaves the session and the spreadsheet
\* as they were; every other one stores the record of this request as
\* current_row, leaves the spreadsheet as it was and redirects to the edit form.
C10_ScrapeRejectsOrStores ==
    [][ ScrapeEnds =>
          LET u == Strip(request'.url) IN
          IF u = <<>> \/ InvalidHost(u) \/ pc = "raised"
          THEN /\ response' = Redirect("index", "error")
               /\ session' = session
               /\ excel' = excel
          ELSE /\ pc = "returned"
               /\ response' = Redirect("edit", "")
               /\ excel' = excel
               /\ DOMAIN session'.current_row = Fields \cup DefaultFields
               /\ session'.current_row.source_url = Str(u)
               /\ \A k \in {"title", "brand", "price_text", "ean", "description"} :
                     session'.current_row[k] = Str(result[k])
               /\ session'.current_row.price_value = result.price_value
               /\ session'.current_row.list_price_value = result.list_price_value
    ]_vars

\* a scrape of a marketplace URL that raised was rejected while an earlier record
\* waits in the session
C10_Witness ==
    /\ request.route = "scrape" /\ pc = "idle"
    /\ request.url = UrlBolPadded
    /\ response = Redirect("index", "error")
    /\ session.current_row # NoRow
    /\ session.current_row.title = Str(<<"T", "v">>)

----------------------------------------------------------------------------
(* C11 *)

\* v is a finite number that is not negative
FiniteNonNegative(v) ==
    /\ v.type = "float"
    /\ DOMAIN v = {"type", "mant", "exp"}
    /\ v.mant >= 0

\* C11: a price_value or list_price_value present in the returned record is a
\* finite, non-negative number, whatever the price text carried (minus sign,
\* currency marks, any number of digits).
C11_PricesFiniteNonNegative ==
    pc = "returned" =>
        /\ result.price_value # None => FiniteNonNegative(result.price_value)
        /\ result.list_price_value # None => FiniteNonNegative(result.list_price_value)

----------------------------------------------------------------------------
(* C12 *)

\* C12: the description of the returned record is the stripped text of the first
\* rule, most specific first, whose container has text: a container without text
\* is passed over for a later rule's container, and the description is "" only
\* when no rule has a container with text.
C12_DescriptionIsFirstNonEmptyRule ==
    pc = "returned" =>
        result.description =
            FirstNonEmpty([k \in 1..3 |-> RuleText(doc, DescriptionSelectors[k])])

----------------------------------------------------------------------------
(* C13 *)

\* a step that handles a confirm POST for a record that carries the index
\* edit_row gave it
ConfirmOfLoaded ==
    /\ request'.route = "confirm" /\ request'.method = "POST"
    /\ HasRow /\ "edit_row_id" \in DOMAIN session.current_row

\* C13: a confirm POST for a record read by edit_row changes no spreadsheet row
\* but the one edit_row read, wherever deletions have moved it since, writes that
\* row when it reports success, and changes nothing when that row was deleted.
C13_ConfirmOverwritesLoadedRow ==
    [][ ConfirmOfLoaded =>
          /\ Len(excel') = Len(excel)
          /\ \A i \in 1..Len(excel) : excel'[i] # excel[i] => loaded = At(i - 1)
          /\ loaded = Gone => excel' = excel
          /\ response' = Redirect("rows", "success") =>
                /\ loaded.type = "at"
                /\ excel'[loaded.row + 1] =
                      to_excel(<<map_data_to_excel_columns(
                                    Without(session.current_row, "edit_row_id"))>>)[1]
    ]_vars

----------------------------------------------------------------------------
(* C14 *)

\* a step that handles a confirm POST
ConfirmPost == request'.route = "confirm" /\ request'.method = "POST"

\* a confirm POST whose save raised: the confirm page is shown again
SaveFails == ConfirmPost /\ response' = Render("confirm")

\* C14: a confirm POST whose save fails leaves the pending record of the session
\* as it was, edit_row_id included, and no confirm POST adds a spreadsheet row for
\* a record that was read from a row by edit_row.
C14_FailedSaveKeepsRecord ==
    [][ /\ SaveFails => session' = session /\ excel' = excel
        /\ ConfirmPost /\ loaded # NotLoaded => Len(excel') = Len(excel)
    ]_vars

----------------------------------------------------------------------------
(* C15 *)

\* a confirm POST that reports the record as saved
ConfirmSucceeds == ConfirmPost /\ response' = Redirect("rows", "success")

\* C15: a successful confirm POST removes current_row from the session; while the
\* session holds no current_row an edit or confirm request redirects to the
\* index page and leaves session and spreadsheet as they were, and only a scrape
\* or an edit_row puts a record there; a successful confirm adds exactly one
\* spreadsheet row for a scraped record and none for a record read by edit_row.
C15_PersistedAtMostOnce ==
    [][ /\ ConfirmSucceeds => session'.current_row = NoRow
        /\ ~HasRow /\ request'.route \in {"edit", "confirm"} =>
              /\ response' = Redirect("index", "error")
              /\ session' = session
              /\ excel' = excel
        /\ ~HasRow /\ session'.current_row # NoRow =>
              request'.route \in {"scrape", "edit_row"}
        /\ ConfirmSucceeds /\ loaded = NotLoaded => Len(excel') = Len(excel) + 1
        /\ ConfirmSucceeds /\ loaded # NotLoaded => Len(excel') = Len(excel)
    ]_vars

====
